---- MODULE Spec2Model ----
(***************************************************************************)
(* Model of hailtable-etl/prepare_gene_models.py: the coordinate mapper    *)
(* xpos, the per-version gene model assembly load_gencode_gene_models, and *)
(* the steps of main: the outer join of the versions, the symbol and       *)
(* search term resolution against the HGNC registry, and the MANE Select   *)
(* cross-reference annotation.                                             *)
(*                                                                         *)
(* Hail values that may be missing are modelled as options: NA is the      *)
(* missing value and Some(v) a defined one.  Text that the program takes   *)
(* apart (chromosome labels, gene symbols, the registry's comma separated  *)
(* fields) is a sequence of one-character strings.  A 64-bit integer is a  *)
(* pair [q, r] standing for q * 10^9 + r with 0 <= r < 10^9, because the   *)
(* values of xpos exceed the integers of the model checker.                *)
(***************************************************************************)
EXTENDS Integers, Sequences, FiniteSets, TLC

VARIABLES
    pc,                     \* position in the function being run
    xargs,                  \* xpos: two (contig_str, position) argument pairs
    xres,                   \* xpos: the two results
    gtf,                    \* load_gencode_gene_models: the imported GTF rows
    models,                 \* load_gencode_gene_models: the returned genes table
    all_gencode_versions,   \* main: versions of --gencode, in order
    idx,                    \* main: index of the loop in progress
    gencode_tables,         \* main: genes table loaded for each version
    genes,                  \* main: the genes table under construction
    hgnc,                   \* main: the registry table
    mane,                   \* main: the rows of the MANE Select file
    ensembl_to_refseq_map,  \* main: the two-level lookup
    failed                  \* main: TRUE once an exception was raised

vars == <<pc, xargs, xres, gtf, models, all_gencode_versions, idx,
          gencode_tables, genes, hgnc, mane, ensembl_to_refseq_map, failed>>

xposVars == <<xargs, xres>>
loadVars == <<gtf, models>>
mainVars == <<all_gencode_versions, idx, gencode_tables, genes, hgnc, mane,
              ensembl_to_refseq_map, failed>>

---------------------------------------------------------------------------
(* Hail missingness *)

NA == [d |-> FALSE]
Some(v) == [d |-> TRUE, v |-> v]
is_defined(x) == x.d
is_missing(x) == ~x.d
or_else(a, b) == IF a.d THEN a ELSE b

\* hl.cond(c, a, b) with a condition that may be missing: missing in, missing out
cond(c, a, b) == IF ~c.d THEN NA ELSE IF c.v THEN a ELSE b

Range(s) == {s[k] : k \in DOMAIN s}

\* the orders in which hl.agg.collect may deliver the rows of a group
Orderings(S) ==
    {s \in [1..Cardinality(S) -> S] : \A a, b \in DOMAIN s : a # b => s[a] # s[b]}

---------------------------------------------------------------------------
(* xpos *)

Billion == 1000000000

Digits == <<"0", "1", "2", "3", "4", "5", "6", "7", "8", "9">>
DigitVal(c) == CHOOSE n \in 0..9 : Digits[n + 1] = c

\* hl.int(contig_str)
RECURSIVE ParseInt(_)
ParseInt(s) ==
    IF s = <<>> THEN 0
    ELSE ParseInt(SubSeq(s, 1, Len(s) - 1)) * 10 + DigitVal(s[Len(s)])

\* a plausible slip: Y given the ordinal of X
contig_number_SameXY(contig_str) ==
    IF contig_str = <<"X">> THEN 23
    ELSE IF contig_str = <<"Y">> THEN 23
    ELSE IF contig_str[1] = "M" THEN 25
    ELSE ParseInt(contig_str)

contig_number(contig_str) ==
    IF contig_str = <<"X">> THEN 23
    ELSE IF contig_str = <<"Y">> THEN 24
    ELSE IF contig_str[1] = "M" THEN 25
    ELSE ParseInt(contig_str)

\* hl.int64(n) * 1_000_000_000 for a 32-bit n >= 0
Int64TimesBillion(n) == [q |-> n, r |-> 0]
\* int64 + int32 position
Int64Plus(a, p) == [q |-> a.q + ((a.r + p) \div Billion), r |-> (a.r + p) % Billion]
Int64Less(a, b) == a.q < b.q \/ (a.q = b.q /\ a.r < b.r)

xpos(contig_str, position) ==
    Int64Plus(Int64TimesBillion(contig_number(contig_str)), position)

NumStr(n) ==
    IF n < 10 THEN <<Digits[n + 1]>>
    ELSE <<Digits[(n \div 10) + 1], Digits[(n % 10) + 1]>>

Autosomes == {NumStr(n) : n \in 1..22}
Chromosomes == Autosomes \cup {<<"X">>, <<"Y">>, <<"M">>, <<"M", "T">>}
Positions == {1, 2, Billion - 2, Billion - 1}

IdleXpos == xargs = <<>> /\ xres = <<>>
IdleLoad == gtf = <<>> /\ models = <<>>
IdleMain ==
    /\ all_gencode_versions = <<>>
    /\ idx = 0
    /\ gencode_tables = <<>>
    /\ genes = <<>>
    /\ hgnc = <<>>
    /\ mane = <<>>
    /\ ensembl_to_refseq_map = <<>>
    /\ failed = FALSE

InitXpos ==
    /\ pc = "xpos"
    /\ xargs \in (Chromosomes \X Positions) \X (Chromosomes \X Positions)
    /\ xres = <<>>
    /\ IdleLoad
    /\ IdleMain

CallXpos ==
    /\ pc = "xpos"
    /\ xres' = <<xpos(xargs[1][1], xargs[1][2]), xpos(xargs[2][1], xargs[2][2])>>
    /\ pc' = "xpos_done"
    /\ UNCHANGED <<xargs, loadVars, mainVars>>

NextXpos == CallXpos
SpecXpos == InitXpos /\ [][NextXpos]_vars

---------------------------------------------------------------------------
(* load_gencode_gene_models *)

MaxPos == 3
MaxRows == 2

\* data_utils.regions.merge_overlapping_regions: its stable sort by start
RECURSIVE SortedByStart(_)
SortedByStart(s) ==
    IF s = <<>> THEN <<>>
    ELSE LET front == SortedByStart(SubSeq(s, 1, Len(s) - 1))
             e == s[Len(s)]
             k == Cardinality({j \in DOMAIN front : front[j].start <= e.start})
         IN SubSeq(front, 1, k) \o <<e>> \o SubSeq(front, k + 1, Len(front))

Max(a, b) == IF a >= b THEN a ELSE b

\* the left to right scan: extend the open region or open a new one
RECURSIVE MergeScan(_, _)
MergeScan(acc, rest) ==
    IF rest = <<>> THEN acc
    ELSE LET cur == acc[Len(acc)]
             region == Head(rest)
         IN IF region.start <= cur.stop + 1
            THEN MergeScan(SubSeq(acc, 1, Len(acc) - 1)
                             \o <<[cur EXCEPT !.stop = Max(region.stop, cur.stop)]>>,
                           Tail(rest))
            ELSE MergeScan(Append(acc, region), Tail(rest))

merge_overlapping_regions(regions) ==
    IF Len(regions) > 1
    THEN LET sorted_regions == SortedByStart(regions)
         IN MergeScan(<<sorted_regions[1]>>, Tail(sorted_regions))
    ELSE regions

IsCodingRow(exon) == exon.feature_type = "CDS" \/ exon.feature_type = "UTR"

\* exon.select("feature_type", "start", "stop", xstart=..., xstop=...)
SelectExon(exon) ==
    [feature_type |-> exon.feature_type, start |-> exon.start, stop |-> exon.stop,
     xstart |-> xpos(exon.chrom, exon.start), xstop |-> xpos(exon.chrom, exon.stop)]

\* exons.map(lambda exon: exon.select(...))
SelectExons(exons) == [k \in DOMAIN exons |-> SelectExon(exons[k])]

\* a plausible slip: the third pass takes every plain exon row
non_coding_transcript_exons_AllPlain(gene_exons) ==
    SelectSeq(gene_exons, LAMBDA exon : exon.feature_type = "exon")

non_coding_transcript_exons(gene_exons) ==
    LET coding_transcripts ==
            {exon.transcript_id : exon \in Range(SelectSeq(gene_exons, IsCodingRow))}
    IN SelectSeq(gene_exons, LAMBDA exon : exon.transcript_id \notin coding_transcripts)

collect_gene_exons(gene_exons) ==
    LET exons ==
            merge_overlapping_regions(
                SelectSeq(gene_exons, LAMBDA exon : exon.feature_type = "CDS"))
            \o merge_overlapping_regions(
                SelectSeq(gene_exons, LAMBDA exon : exon.feature_type = "UTR"))
            \o merge_overlapping_regions(non_coding_transcript_exons(gene_exons))
    IN SelectExons(exons)

collect_transcript_exons(transcript_exons) ==
    LET is_coding == \E k \in DOMAIN transcript_exons : IsCodingRow(transcript_exons[k])
        exons == IF is_coding
                 THEN SelectSeq(transcript_exons, LAMBDA exon : exon.feature_type # "exon")
                 ELSE transcript_exons
    IN SelectExons(exons)

\* table[key].exons of a group_by(...).aggregate(exons=hl.agg.collect(...)):
\* the rows of the group in the order the aggregation delivered them, and
\* missing when the key has no group
GroupExons(order, key_field, key) ==
    LET rows == SelectSeq(order, LAMBDA exon : exon[key_field] = key)
    IN IF rows = <<>> THEN NA ELSE Some(rows)

\* lines 126-127: genes annotated with their exon list
GenesWithExons(order) ==
    [g \in gtf.genes |->
        LET gene_exons == GroupExons(order, "gene_id", g)
        IN [gene_id |-> g,
            exons |-> IF gene_exons.d THEN Some(collect_gene_exons(gene_exons.v))
                      ELSE NA]]

TranscriptIdsOf(rows) == {t.transcript_id : t \in rows}
TranscriptRow(id) == CHOOSE t \in gtf.transcripts : t.transcript_id = id

\* lines 128-131: transcripts annotated with their exon list; of the
\* transcript's own fields the key, gene_id and start are kept
TranscriptsWithExons(order) ==
    [id \in TranscriptIdsOf(gtf.transcripts) |->
        LET t == TranscriptRow(id)
            transcript_exons == GroupExons(order, "transcript_id", id)
        IN [transcript_id |-> id, gene_id |-> t.gene_id, start |-> t.start,
            exons |-> IF transcript_exons.d
                      THEN Some(collect_transcript_exons(transcript_exons.v))
                      ELSE NA]]

\* lines 132-136: transcripts collected per gene_id and joined onto the genes
GenesWithTranscripts(genesTable, transcriptsTable, order) ==
    [g \in DOMAIN genesTable |->
        LET mine == SelectSeq(order, LAMBDA id : transcriptsTable[id].gene_id = g)
        IN [gene_id |-> g,
            exons |-> genesTable[g].exons,
            transcripts |-> IF mine = <<>> THEN NA
                            ELSE Some([k \in DOMAIN mine |-> transcriptsTable[mine[k]]])]]

GeneIds == {"G1", "G2"}
TranscriptIds == {"T1", "T2", "T3"}
\* T3 names a gene that has no gene row
TranscriptGene(id) == IF id = "T3" THEN "G9" ELSE "G1"
ExonTranscriptIds == {"T1", "T2"}
FeatureTypes == {"exon", "CDS", "UTR"}

ExonRow(f, t, a, b) ==
    [feature_type |-> f, transcript_id |-> t, gene_id |-> TranscriptGene(t),
     chrom |-> <<"7">>, start |-> a, stop |-> b]

ExonRows ==
    {r \in {ExonRow(f, t, a, b) : f \in FeatureTypes, t \in ExonTranscriptIds,
                                 a \in 1..MaxPos, b \in 1..MaxPos} :
        r.start <= r.stop}

\* transcript A coding with a plain exon spanning its coding regions,
\* transcript B non-coding
ScenarioRows ==
    {ExonRow("CDS", "T1", 10, 20), ExonRow("CDS", "T1", 25, 30),
     ExonRow("exon", "T1", 10, 30), ExonRow("exon", "T2", 40, 50)}

\* a coding transcript with overlapping and adjacent regions of both kinds
ScenarioRowsUTR ==
    {ExonRow("UTR", "T1", 1, 4), ExonRow("CDS", "T1", 5, 9),
     ExonRow("CDS", "T2", 8, 12), ExonRow("exon", "T2", 1, 12)}

\* the subsets of S of at most k elements
RECURSIVE SubsetsUpTo(_, _)
SubsetsUpTo(S, k) ==
    IF k = 0 THEN {{}}
    ELSE LET smaller == SubsetsUpTo(S, k - 1)
         IN smaller \cup {p \cup {x} : p \in smaller, x \in S}

ExonRowSets == SubsetsUpTo(ExonRows, MaxRows) \cup {ScenarioRows, ScenarioRowsUTR}

TranscriptRows ==
    {[transcript_id |-> id, gene_id |-> TranscriptGene(id), start |-> a] :
        id \in TranscriptIds, a \in 1..2}

\* transcript_id is the key of the transcripts table
TranscriptTables ==
    {S \in SUBSET TranscriptRows :
        \A t, u \in S : t.transcript_id = u.transcript_id => t = u}

InitGeneExons ==
    /\ pc = "gene_exons"
    /\ gtf \in [genes : {GeneIds}, transcripts : {{}}, exons : ExonRowSets]
    /\ models = <<>>
    /\ IdleXpos
    /\ IdleMain

InitLoad ==
    /\ pc = "gene_exons"
    /\ gtf \in [genes : {GeneIds}, transcripts : TranscriptTables, exons : ExonRowSets]
    /\ models = <<>>
    /\ IdleXpos
    /\ IdleMain

CollectGeneExons ==
    /\ pc = "gene_exons"
    /\ \E order \in Orderings(gtf.exons) :
          models' = [genes |-> GenesWithExons(order), transcripts |-> <<>>]
    /\ pc' = "transcript_exons"
    /\ UNCHANGED <<gtf, xposVars, mainVars>>

CollectTranscriptExons ==
    /\ pc = "transcript_exons"
    /\ \E order \in Orderings(gtf.exons) :
          models' = [models EXCEPT !.transcripts = TranscriptsWithExons(order)]
    /\ pc' = "gene_transcripts"
    /\ UNCHANGED <<gtf, xposVars, mainVars>>

CollectGeneTranscripts ==
    /\ pc = "gene_transcripts"
    /\ \E order \in Orderings(DOMAIN models.transcripts) :
          models' = [models EXCEPT
                        !.genes = GenesWithTranscripts(models.genes, models.transcripts, order)]
    /\ pc' = "load_done"
    /\ UNCHANGED <<gtf, xposVars, mainVars>>

NextGeneExons == CollectGeneExons
SpecGeneExons == InitGeneExons /\ [][NextGeneExons]_vars

NextLoad == CollectGeneExons \/ CollectTranscriptExons \/ CollectGeneTranscripts
SpecLoad == InitLoad /\ [][NextLoad]_vars

---------------------------------------------------------------------------
(* main: the outer join of the configured versions, lines 156-171 *)

MaxVersions == 3

Versions == {"19", "29", "31", "35"}

\* f"v{gencode_version}"
Label(gencode_version) == "v" \o gencode_version

\* genes is None
None == NA

\* gencode_genes.select(**{f"v{gencode_version}": gencode_genes.row_value}):
\* the key stays, the other fields move under the version's label.  Of the
\* gene record gene_version and gene_symbol are kept; the coordinates, the
\* exons, the transcripts and canonical_transcript_id pass through the join
\* untouched.
SelectVersion(gencode_genes, gencode_version) ==
    [fields |-> {Label(gencode_version)},
     rows |-> {[gene_id |-> r.gene_id,
                v |-> (Label(gencode_version) :>
                          Some([gene_version |-> r.gene_version,
                                gene_symbol |-> r.gene_symbol]))] :
               r \in gencode_genes}]

Missing(fields) == [f \in fields |-> NA]
KeysOf(table) == {r.gene_id : r \in table.rows}

\* a plausible slip: a left join, which drops the genes new in the right table
join_outer_Left(left, right) ==
    [fields |-> left.fields \cup right.fields,
     rows |-> {[gene_id |-> l.gene_id, v |-> l.v @@ r.v] :
                  <<l, r>> \in {p \in left.rows \X right.rows : p[1].gene_id = p[2].gene_id}}
              \cup {[gene_id |-> l.gene_id, v |-> l.v @@ Missing(right.fields)] :
                      l \in {x \in left.rows : x.gene_id \notin KeysOf(right)}}]

\* genes.join(gencode_genes, "outer") on the key gene_id
join_outer(left, right) ==
    [fields |-> left.fields \cup right.fields,
     rows |-> {[gene_id |-> p[1].gene_id, v |-> p[1].v @@ p[2].v] :
                  p \in {q \in left.rows \X right.rows : q[1].gene_id = q[2].gene_id}}
              \cup {[gene_id |-> l.gene_id, v |-> l.v @@ Missing(right.fields)] :
                      l \in {x \in left.rows : x.gene_id \notin KeysOf(right)}}
              \cup {[gene_id |-> r.gene_id, v |-> Missing(left.fields) @@ r.v] :
                      r \in {x \in right.rows : x.gene_id \notin KeysOf(left)}}]

\* genes.select(gencode=genes.row_value)
SelectGencodeRows(table) ==
    {[gene_id |-> r.gene_id, gencode |-> r.v] : r \in table.rows}

\* the gene_name a version gives a gene
GencodeSymbol(gencode_version) ==
    IF gencode_version = "19" THEN <<"B", "a", "r">>
    ELSE IF gencode_version = "29" THEN <<"B", "A", "Z">>
    ELSE IF gencode_version = "31" THEN <<"c", "1", "o", "r", "f">>
    ELSE <<"Q", "u", "x">>

\* what a version's table may hold for a gene: no row, a row without
\* gene_name, a row with gene_name
Shapes == {"absent", "unnamed", "named"}

GeneRowsOfVersion(shape, gencode_version) ==
    {[gene_id |-> g, gene_version |-> gencode_version,
      gene_symbol |-> IF shape[g] = "named" THEN Some(GencodeSymbol(gencode_version))
                      ELSE NA] :
        g \in {x \in DOMAIN shape : shape[x] # "absent"}}

VersionLists ==
    UNION {{vs \in [1..n -> Versions] : \A a, b \in 1..n : a # b => vs[a] # vs[b]} :
              n \in 1..MaxVersions}

TablesFor(vs, shapes) ==
    [gencode_version \in Range(vs) |->
        GeneRowsOfVersion(shapes[CHOOSE k \in DOMAIN vs : vs[k] = gencode_version],
                          gencode_version)]

IdleJoin == hgnc = <<>> /\ mane = <<>> /\ ensembl_to_refseq_map = <<>> /\ failed = FALSE

InitJoin ==
    /\ pc = "join"
    /\ all_gencode_versions \in VersionLists
    /\ \E shapes \in [1..Len(all_gencode_versions) ->
                         [GeneIds -> Shapes]] :
          gencode_tables = TablesFor(all_gencode_versions, shapes)
    /\ idx = 1
    /\ genes = None
    /\ IdleJoin
    /\ IdleXpos
    /\ IdleLoad

\* first pass of the loop of lines 158-170: genes is still None
JoinFirst ==
    /\ pc = "join"
    /\ idx <= Len(all_gencode_versions)
    /\ ~genes.d
    /\ genes' = Some(SelectVersion(gencode_tables[all_gencode_versions[idx]],
                                   all_gencode_versions[idx]))
    /\ idx' = idx + 1
    /\ UNCHANGED <<pc, all_gencode_versions, gencode_tables, hgnc, mane,
                   ensembl_to_refseq_map, failed, xposVars, loadVars>>

\* later passes: the version's table is joined onto genes
JoinOuter ==
    /\ pc = "join"
    /\ idx <= Len(all_gencode_versions)
    /\ genes.d
    /\ genes' = Some(join_outer(genes.v,
                                SelectVersion(gencode_tables[all_gencode_versions[idx]],
                                              all_gencode_versions[idx])))
    /\ idx' = idx + 1
    /\ UNCHANGED <<pc, all_gencode_versions, gencode_tables, hgnc, mane,
                   ensembl_to_refseq_map, failed, xposVars, loadVars>>

\* line 171
SelectGencode ==
    /\ pc = "join"
    /\ idx > Len(all_gencode_versions)
    /\ genes' = Some(SelectGencodeRows(genes.v))
    /\ pc' = "import_hgnc"
    /\ UNCHANGED <<idx, all_gencode_versions, gencode_tables, hgnc, mane,
                   ensembl_to_refseq_map, failed, xposVars, loadVars>>

NextJoin == JoinFirst \/ JoinOuter \/ SelectGencode
SpecJoin == InitJoin /\ [][NextJoin]_vars

---------------------------------------------------------------------------
(* main: the registry, the symbol and the search terms, lines 172-220 *)

Lowercase == <<"a", "b", "c", "d", "e", "f", "g", "h", "i", "j", "k", "l", "m",
               "n", "o", "p", "q", "r", "s", "t", "u", "v", "w", "x", "y", "z">>
Uppercase == <<"A", "B", "C", "D", "E", "F", "G", "H", "I", "J", "K", "L", "M",
               "N", "O", "P", "Q", "R", "S", "T", "U", "V", "W", "X", "Y", "Z">>

UpperChar(c) ==
    IF \E k \in DOMAIN Lowercase : Lowercase[k] = c
    THEN Uppercase[CHOOSE k \in DOMAIN Lowercase : Lowercase[k] = c]
    ELSE c

\* s.upper()
upper(s) == [k \in DOMAIN s |-> UpperChar(s[k])]

\* s.strip()
RECURSIVE strip(_)
strip(s) ==
    IF s = <<>> THEN s
    ELSE IF Head(s) = " " THEN strip(Tail(s))
    ELSE IF s[Len(s)] = " " THEN strip(SubSeq(s, 1, Len(s) - 1))
    ELSE s

\* s.split(","): the pieces between the commas, the empty ones kept
RECURSIVE SplitFrom(_, _)
SplitFrom(piece, rest) ==
    IF rest = <<>> THEN <<piece>>
    ELSE IF Head(rest) = "," THEN <<piece>> \o SplitFrom(<<>>, Tail(rest))
    ELSE SplitFrom(Append(piece, Head(rest)), Tail(rest))

split(s) == SplitFrom(<<>>, s)

\* hl.import_table(..., missing=""): an empty field is read as missing
ImportText(field) == IF field = <<>> THEN NA ELSE Some(field)
ImportId(field) == IF field = "" THEN NA ELSE Some(field)

\* pieces.map(lambda s: s.strip())
StripAll(pieces) == [k \in DOMAIN pieces |-> strip(pieces[k])]

\* lines 184-191: a str == "" comparison is missing on a missing string
SymbolList(field) ==
    cond(IF field.d THEN Some(field.v = <<>>) ELSE NA,
         Some(<<>>),
         IF field.d THEN Some(StripAll(split(field.v))) ELSE NA)

\* lines 172-192: the file's rows selected, filtered and keyed by gene_id
ImportHgncRows(file) ==
    LET selected ==
            {[gene_id |-> or_else(ImportId(r.ensembl_gene_id), ImportId(r.ensembl_id)),
              symbol |-> ImportText(r.approved_symbol),
              previous_symbols |-> SymbolList(ImportText(r.previous_symbols)),
              alias_symbols |-> SymbolList(ImportText(r.alias_symbols))] : r \in file}
    IN {[gene_id |-> r.gene_id.v, symbol |-> r.symbol,
         previous_symbols |-> r.previous_symbols,
         alias_symbols |-> r.alias_symbols] : r \in {x \in selected : is_defined(x.gene_id)}}

\* hgnc[genes.gene_id]: the row of the key, or a missing struct
HgncLookup(table, gene_id) ==
    IF \E h \in table : h.gene_id = gene_id
    THEN Some(CHOOSE h \in table : h.gene_id = gene_id)
    ELSE NA

\* x.f of a struct that may be missing
Field(struct, f) == IF struct.d THEN struct.v[f] ELSE NA

\* lines 193-194; of the registry's fields hgnc_id, name and omim_id, which
\* nothing later reads, are left out
AnnotateHgncRow(row, table) ==
    LET h == HgncLookup(table, row.gene_id)
    IN [gene_id |-> row.gene_id,
        gencode |-> row.gencode,
        symbol |-> Field(h, "symbol"),
        previous_symbols |-> Field(h, "previous_symbols"),
        alias_symbols |-> Field(h, "alias_symbols"),
        symbol_source |-> IF is_defined(Field(h, "symbol")) THEN Some("hgnc") ELSE NA]

\* a plausible slip: the source is rewritten whenever the version has a symbol
ResolveSymbolRow_Overwrite(row, gencode_version) ==
    LET gene_symbol == Field(row.gencode[Label(gencode_version)], "gene_symbol")
    IN [row EXCEPT
           !.symbol = or_else(row.symbol, gene_symbol),
           !.symbol_source =
               IF is_defined(gene_symbol)
               THEN Some("gencode (v" \o gencode_version \o ")")
               ELSE row.symbol_source]

\* lines 196-203: both fields are computed from the row as it was
ResolveSymbolRow(row, gencode_version) ==
    LET gene_symbol == Field(row.gencode[Label(gencode_version)], "gene_symbol")
    IN [row EXCEPT
           !.symbol = or_else(row.symbol, gene_symbol),
           !.symbol_source =
               IF is_missing(row.symbol) /\ is_defined(gene_symbol)
               THEN Some("gencode (v" \o gencode_version \o ")")
               ELSE row.symbol_source]

\* array.append(x): x may be a missing element
ArrayAppend(array, x) == IF array.d THEN Some(Append(array.v, x)) ELSE NA
\* array.extend(other): missing when either array is missing
ArrayExtend(array, other) ==
    IF array.d /\ other.d
    THEN Some(array.v \o [k \in DOMAIN other.v |-> Some(other.v[k])])
    ELSE NA

\* lines 204-210
CollectSearchTermsRow(row) ==
    [gene_id |-> row.gene_id,
     gencode |-> row.gencode,
     symbol |-> row.symbol,
     previous_symbols |-> row.previous_symbols,
     alias_symbols |-> row.alias_symbols,
     symbol_source |-> row.symbol_source,
     symbol_upper_case |-> IF row.symbol.d THEN Some(upper(row.symbol.v)) ELSE NA,
     search_terms |->
        ArrayExtend(ArrayExtend(ArrayAppend(Some(<<>>), row.symbol),
                                row.previous_symbols),
                    row.alias_symbols)]

\* lines 212-219
AppendGencodeSymbolRow(row, gencode_version) ==
    LET symbol_in_gencode == Field(row.gencode[Label(gencode_version)], "gene_symbol")
    IN [row EXCEPT
           !.search_terms = IF is_defined(symbol_in_gencode)
                            THEN ArrayAppend(row.search_terms, symbol_in_gencode)
                            ELSE row.search_terms]

\* line 220: hl.set(search_terms.map(lambda s: s.upper()))
SearchTermsSetRow(row) ==
    [row EXCEPT
        !.search_terms =
            IF row.search_terms.d
            THEN Some({IF s.d THEN Some(upper(s.v)) ELSE NA : s \in Range(row.search_terms.v)})
            ELSE NA]

\* the table the loop of lines 158-170 leaves after its first n passes
RECURSIVE JoinedUpTo(_, _, _)
JoinedUpTo(vs, tables, n) ==
    IF n = 1 THEN SelectVersion(tables[vs[1]], vs[1])
    ELSE join_outer(JoinedUpTo(vs, tables, n - 1), SelectVersion(tables[vs[n]], vs[n]))

HgncFileRows ==
    [ensembl_gene_id : {"G1"},
     ensembl_id : {""},
     approved_symbol : {<<>>, <<"F", "o", "o">>},
     previous_symbols : {<<>>, <<"B", "a", "r", ",", " ", "c", "1", "o", "r", "f">>},
     alias_symbols : {<<>>, <<" ", "b", "a", "z">>}]
    \cup
    [ensembl_gene_id : {""},
     ensembl_id : {"G1", ""},
     approved_symbol : {<<"F", "o", "o">>},
     previous_symbols : {<<"B", "a", "r", ",", " ", "c", "1", "o", "r", "f">>},
     alias_symbols : {<<>>}]

HgncFiles == {{}} \cup {{r} : r \in HgncFileRows}

\* the state main is in after line 171
InitSymbols ==
    /\ pc = "import_hgnc"
    /\ all_gencode_versions \in VersionLists
    /\ \E shapes \in [1..Len(all_gencode_versions) -> [{"G1"} -> Shapes]] :
          gencode_tables = TablesFor(all_gencode_versions, shapes)
    /\ idx = Len(all_gencode_versions) + 1
    /\ genes = Some(SelectGencodeRows(
                       JoinedUpTo(all_gencode_versions, gencode_tables,
                                  Len(all_gencode_versions))))
    /\ hgnc \in [file : HgncFiles, table : {NA}]
    /\ mane = <<>>
    /\ ensembl_to_refseq_map = <<>>
    /\ failed = FALSE
    /\ IdleXpos
    /\ IdleLoad

ImportHgnc ==
    /\ pc = "import_hgnc"
    /\ hgnc' = [hgnc EXCEPT !.table = Some(ImportHgncRows(hgnc.file))]
    /\ pc' = "annotate_hgnc"
    /\ UNCHANGED <<genes, idx, all_gencode_versions, gencode_tables, mane,
                   ensembl_to_refseq_map, failed, xposVars, loadVars>>

AnnotateHgnc ==
    /\ pc = "annotate_hgnc"
    /\ genes' = Some({AnnotateHgncRow(row, hgnc.table.v) : row \in genes.v})
    /\ idx' = 1
    /\ pc' = "resolve_symbol"
    /\ UNCHANGED <<hgnc, all_gencode_versions, gencode_tables, mane,
                   ensembl_to_refseq_map, failed, xposVars, loadVars>>

\* one pass of the loop of lines 195-203
ResolveSymbol ==
    /\ pc = "resolve_symbol"
    /\ idx <= Len(all_gencode_versions)
    /\ genes' = Some({ResolveSymbolRow(row, all_gencode_versions[idx]) : row \in genes.v})
    /\ idx' = idx + 1
    /\ UNCHANGED <<pc, hgnc, all_gencode_versions, gencode_tables, mane,
                   ensembl_to_refseq_map, failed, xposVars, loadVars>>

CollectSearchTerms ==
    /\ pc = "resolve_symbol"
    /\ idx > Len(all_gencode_versions)
    /\ genes' = Some({CollectSearchTermsRow(row) : row \in genes.v})
    /\ idx' = 1
    /\ pc' = "search_terms"
    /\ UNCHANGED <<hgnc, all_gencode_versions, gencode_tables, mane,
                   ensembl_to_refseq_map, failed, xposVars, loadVars>>

\* one pass of the loop of lines 211-219
AppendGencodeSymbol ==
    /\ pc = "search_terms"
    /\ idx <= Len(all_gencode_versions)
    /\ genes' = Some({AppendGencodeSymbolRow(row, all_gencode_versions[idx]) :
                         row \in genes.v})
    /\ idx' = idx + 1
    /\ UNCHANGED <<pc, hgnc, all_gencode_versions, gencode_tables, mane,
                   ensembl_to_refseq_map, failed, xposVars, loadVars>>

SearchTermsSet ==
    /\ pc = "search_terms"
    /\ idx > Len(all_gencode_versions)
    /\ genes' = Some({SearchTermsSetRow(row) : row \in genes.v})
    /\ pc' = "search_done"
    /\ UNCHANGED <<idx, hgnc, all_gencode_versions, gencode_tables, mane,
                   ensembl_to_refseq_map, failed, xposVars, loadVars>>

NextSymbols ==
    \/ ImportHgnc
    \/ AnnotateHgnc
    \/ ResolveSymbol
    \/ CollectSearchTerms
    \/ AppendGencodeSymbol
    \/ SearchTermsSet
SpecSymbols == InitSymbols /\ [][NextSymbols]_vars

---------------------------------------------------------------------------
(* main: the MANE Select cross-reference, lines 221-264 *)

MaxMane == 2

\* the versions the annotation loop of line 241 names
AnnotatedVersions == <<"19", "29">>
\* int(gencode_version) for those
VersionNumber(gencode_version) == IF gencode_version = "19" THEN 19 ELSE 29

NullRefseq == [refseq_id |-> NA, refseq_version |-> NA]

\* lines 234-238: the entry of the accession is replaced by a one-version dict
MapTranscriptInto(map, transcript) ==
    (transcript.ensembl_id :>
        (transcript.ensembl_version :>
            [refseq_id |-> Some(transcript.refseq_id),
             refseq_version |-> Some(transcript.refseq_version)]))
    @@ map

\* dict.get(key, default)
Get(dict, key, default) == IF key \in DOMAIN dict THEN dict[key] ELSE default

\* lines 242-255
transcript_annotation(gencode_version, map, transcript) ==
    IF VersionNumber(gencode_version) >= 20
    THEN transcript @@ Get(Get(map, transcript.transcript_id, <<>>),
                           transcript.transcript_version, NullRefseq)
    ELSE transcript @@ NullRefseq

\* lines 256-264 on one row: the transcripts of the version's sub-record mapped
AnnotateTranscriptsRow(row, gencode_version, map) ==
    LET label == Label(gencode_version)
        sub == row.gencode[label]
    IN [row EXCEPT
           !.gencode[label] =
               IF sub.d
               THEN Some([sub.v EXCEPT
                            !.transcripts =
                                IF sub.v.transcripts.d
                                THEN Some([k \in DOMAIN sub.v.transcripts.v |->
                                             transcript_annotation(
                                                 gencode_version, map,
                                                 sub.v.transcripts.v[k])])
                                ELSE NA])
               ELSE NA]

ManeRows ==
    [ensembl_id : {"T1", "T2"}, ensembl_version : {"1", "2"},
     refseq_id : {"NM1", "NM2"}, refseq_version : {"3"}]

SameTranscript(a, b) ==
    a.ensembl_id = b.ensembl_id /\ a.ensembl_version = b.ensembl_version

\* the rows of the file, one per (accession, version)
RECURSIVE ManeFiles(_)
ManeFiles(n) ==
    IF n = 0 THEN {<<>>}
    ELSE LET shorter == ManeFiles(n - 1)
             fresh == {p \in shorter \X ManeRows :
                          \A k \in DOMAIN p[1] : ~SameTranscript(p[1][k], p[2])}
         IN shorter \cup {Append(p[1], p[2]) : p \in fresh}

\* the transcripts of the gene in every version
GeneTranscripts ==
    <<[transcript_id |-> "T1", transcript_version |-> "1"],
      [transcript_id |-> "T2", transcript_version |-> "2"]>>

SubRecords == {NA, Some([transcripts |-> NA]), Some([transcripts |-> Some(GeneTranscripts)])}

\* the state main is in after line 220, with --mane-select-transcripts given;
\* the joined row of a gene has the record of at least one version
InitMane ==
    /\ pc = "build_map"
    /\ all_gencode_versions \in VersionLists
    /\ \E subs \in [{Label(all_gencode_versions[k]) : k \in DOMAIN all_gencode_versions}
                       -> SubRecords] :
          /\ \E label \in DOMAIN subs : subs[label].d
          /\ genes = Some({[gene_id |-> "G1", gencode |-> subs]})
    /\ mane \in ManeFiles(MaxMane)
    /\ ensembl_to_refseq_map = <<>>
    /\ idx = 1
    /\ failed = FALSE
    /\ gencode_tables = <<>>
    /\ hgnc = <<>>
    /\ IdleXpos
    /\ IdleLoad

\* one pass of the loop of lines 233-238
MapTranscript ==
    /\ pc = "build_map"
    /\ idx <= Len(mane)
    /\ ensembl_to_refseq_map' = MapTranscriptInto(ensembl_to_refseq_map, mane[idx])
    /\ idx' = idx + 1
    /\ UNCHANGED <<pc, genes, mane, failed, all_gencode_versions, gencode_tables, hgnc,
                   xposVars, loadVars>>

\* line 240
MapBuilt ==
    /\ pc = "build_map"
    /\ idx > Len(mane)
    /\ idx' = 1
    /\ pc' = "annotate_transcripts"
    /\ UNCHANGED <<ensembl_to_refseq_map, genes, mane, failed, all_gencode_versions,
                   gencode_tables, hgnc, xposVars, loadVars>>

IsConfigured(gencode_version) ==
    \E k \in DOMAIN all_gencode_versions : all_gencode_versions[k] = gencode_version

\* one pass of the loop of lines 241-264 over a version that genes.gencode holds
AnnotateTranscripts ==
    /\ pc = "annotate_transcripts"
    /\ idx <= Len(AnnotatedVersions)
    /\ IsConfigured(AnnotatedVersions[idx])
    /\ genes' = Some({AnnotateTranscriptsRow(row, AnnotatedVersions[idx],
                                            ensembl_to_refseq_map) : row \in genes.v})
    /\ idx' = idx + 1
    /\ UNCHANGED <<pc, ensembl_to_refseq_map, mane, failed, all_gencode_versions,
                   gencode_tables, hgnc, xposVars, loadVars>>

\* the same pass when genes.gencode has no field of that version:
\* genes.gencode[f"v{gencode_version}"] raises and main ends
AnnotateUnconfigured ==
    /\ pc = "annotate_transcripts"
    /\ idx <= Len(AnnotatedVersions)
    /\ ~IsConfigured(AnnotatedVersions[idx])
    /\ failed' = TRUE
    /\ pc' = "raised"
    /\ UNCHANGED <<idx, genes, ensembl_to_refseq_map, mane, all_gencode_versions,
                   gencode_tables, hgnc, xposVars, loadVars>>

AnnotationDone ==
    /\ pc = "annotate_transcripts"
    /\ idx > Len(AnnotatedVersions)
    /\ pc' = "mane_done"
    /\ UNCHANGED <<idx, genes, ensembl_to_refseq_map, mane, failed, all_gencode_versions,
                   gencode_tables, hgnc, xposVars, loadVars>>

NextMane ==
    \/ MapTranscript
    \/ MapBuilt
    \/ AnnotateTranscripts
    \/ AnnotateUnconfigured
    \/ AnnotationDone
SpecMane == InitMane /\ [][NextMane]_vars

---------------------------------------------------------------------------
(* Properties of xpos *)

\* the ordinal the chromosome labels are given
ChromosomeOrdinal(label) ==
    IF label = <<"X">> THEN 23
    ELSE IF label = <<"Y">> THEN 24
    ELSE IF Head(label) = "M" THEN 25
    ELSE CHOOSE n \in 1..22 : NumStr(n) = label

LexLess(c1, p1, c2, p2) ==
    \/ ChromosomeOrdinal(c1) < ChromosomeOrdinal(c2)
    \/ ChromosomeOrdinal(c1) = ChromosomeOrdinal(c2) /\ p1 < p2

\* C6: xpos(chromosome, position) = ordinal * 10^9 + position, with ordinal 23
\* for X, 24 for Y, 25 for a label starting with M and the number of the label
\* otherwise; over {1..22, X, Y, M} and positions 1..10^9-1 it is strictly
\* increasing in the lexicographic order of (ordinal, position).
C6_XposStrictlyIncreasing ==
    pc = "xpos_done" =>
        /\ \A k \in 1..2 :
              xres[k] = [q |-> ChromosomeOrdinal(xargs[k][1]), r |-> xargs[k][2]]
        /\ LexLess(xargs[1][1], xargs[1][2], xargs[2][1], xargs[2][2])
              => Int64Less(xres[1], xres[2])

\* the last position of X against the first position of Y
C6_Witness ==
    /\ pc = "xpos_done"
    /\ xargs = <<<<(<<"X">>), Billion - 1>>, <<(<<"Y">>), 1>>>>
    /\ Int64Less(xres[1], xres[2])

---------------------------------------------------------------------------
(* Properties of load_gencode_gene_models *)

AnyOrder(S) == CHOOSE order \in Orderings(S) : TRUE
Merged(S) == SelectExons(merge_overlapping_regions(AnyOrder(S)))
Interval(exon) == <<exon.start, exon.stop>>

SortedNonOverlapping(exons) ==
    \A a, b \in DOMAIN exons : a < b => exons[a].stop < exons[b].start

GeneRows(g) == {r \in gtf.exons : r.gene_id = g}
TranscriptExonRows(id) == {r \in gtf.exons : r.transcript_id = id}
CodingRows(rows) == {r \in rows : IsCodingRow(r)}
\* the rows of the transcripts that have no CDS or UTR row
NonCodingTranscriptRows(rows) ==
    {r \in rows : \A q \in rows : q.transcript_id = r.transcript_id => ~IsCodingRow(q)}

\* C3: the exon list attached to a transcript is merge(its CDS and UTR rows)
\* when it has one, merge(its plain exon rows) otherwise, and is sorted by
\* start with pairwise non-overlapping intervals whatever the input rows are.
C3_TranscriptExonsMerged ==
    pc = "load_done" =>
        \A id \in DOMAIN models.transcripts :
            LET rows == TranscriptExonRows(id)
                exons == models.transcripts[id].exons
            IN rows # {} =>
                /\ exons.d
                /\ exons.v = IF CodingRows(rows) # {} THEN Merged(CodingRows(rows))
                             ELSE Merged(rows)
                /\ SortedNonOverlapping(exons.v)

\* C4: the exon list of a gene is merge(its CDS rows), then merge(its UTR
\* rows), then merge(the rows of its transcripts without a CDS or UTR row);
\* a plain exon of a coding transcript is in none of them.
C4_GeneExonsThreeParts ==
    pc = "transcript_exons" =>
        /\ \A g \in DOMAIN models.genes :
              LET rows == GeneRows(g)
                  exons == models.genes[g].exons
              IN rows # {} =>
                  /\ exons.d
                  /\ exons.v =
                        Merged({r \in rows : r.feature_type = "CDS"})
                        \o Merged({r \in rows : r.feature_type = "UTR"})
                        \o Merged(NonCodingTranscriptRows(rows))
        /\ gtf.exons = ScenarioRows =>
              [k \in DOMAIN models.genes["G1"].exons.v |->
                  Interval(models.genes["G1"].exons.v[k])]
                 = <<(<<10, 20>>), (<<25, 30>>), (<<40, 50>>)>>

\* the scenario of the coding transcript A and the non-coding transcript B
C4_Witness ==
    /\ pc = "transcript_exons"
    /\ gtf.exons = ScenarioRows
    /\ Len(models.genes["G1"].exons.v) = 3

\* C8: the assembled gene model is the same for every order in which the
\* rows are grouped and collected.
C8_OrderIndependent ==
    pc = "load_done" =>
        \A o1, o2 \in Orderings(gtf.exons) :
            \A o3 \in Orderings(TranscriptIdsOf(gtf.transcripts)) :
                GenesWithTranscripts(GenesWithExons(o1), TranscriptsWithExons(o2), o3)
                    = models.genes

\* C9: the transcripts of a gene record are exactly the transcripts with its
\* gene_id, each with its own exon list, sorted by start; a transcript of an
\* unknown gene is in no gene record.
C9_TranscriptsSortedByStart ==
    pc = "load_done" =>
        \A g \in DOMAIN models.genes :
            LET mine == {id \in DOMAIN models.transcripts :
                            models.transcripts[id].gene_id = g}
                transcripts == models.genes[g].transcripts
            IN /\ mine = {} => (transcripts.d => transcripts.v = <<>>)
               /\ mine # {} =>
                    /\ transcripts.d
                    /\ Len(transcripts.v) = Cardinality(mine)
                    /\ Range(transcripts.v) = {models.transcripts[id] : id \in mine}
                    /\ \A a, b \in DOMAIN transcripts.v :
                          a < b => transcripts.v[a].start <= transcripts.v[b].start

---------------------------------------------------------------------------
(* Properties of main: join, symbol, search terms *)

\* the gene record a version holds for a gene, missing when it has none
VersionRecord(gencode_version, g) ==
    IF \E r \in gencode_tables[gencode_version] : r.gene_id = g
    THEN LET r == CHOOSE r \in gencode_tables[gencode_version] : r.gene_id = g
         IN Some([gene_version |-> r.gene_version, gene_symbol |-> r.gene_symbol])
    ELSE NA

GenesOfVersions(n) ==
    UNION {{r.gene_id : r \in gencode_tables[all_gencode_versions[k]]} : k \in 1..n}

\* rows, whose field sub holds the sub-records, are the outer join of the
\* first n versions
IsOuterJoin(rows, sub, n) ==
    /\ {r.gene_id : r \in rows} = GenesOfVersions(n)
    /\ \A r1, r2 \in rows : r1.gene_id = r2.gene_id => r1 = r2
    /\ \A r \in rows :
          /\ DOMAIN r[sub] = {Label(all_gencode_versions[k]) : k \in 1..n}
          /\ \A k \in 1..n :
                r[sub][Label(all_gencode_versions[k])]
                    = VersionRecord(all_gencode_versions[k], r.gene_id)

\* C5: the join yields exactly one record per gene_id of any configured
\* version, after any number of versions; the sub-record of a version that has
\* the gene is that version's record, of a version that has not, null.
C5_OuterJoinOneRecordPerGene ==
    /\ (pc = "join" /\ genes.d) =>
          IsOuterJoin(genes.v.rows, "v", idx - 1)
    /\ pc = "import_hgnc" =>
          IsOuterJoin(genes.v, "gencode", Len(all_gencode_versions))

\* a gene that only the third of three versions has
C5_Witness ==
    /\ pc = "import_hgnc"
    /\ Len(all_gencode_versions) = 3
    /\ \E r \in genes.v :
          /\ r.gencode[Label(all_gencode_versions[3])].d
          /\ ~r.gencode[Label(all_gencode_versions[1])].d
          /\ ~r.gencode[Label(all_gencode_versions[2])].d

\* the registry's symbol for a gene, read off the file
RegistryRows(g) ==
    {r \in hgnc.file :
        (IF r.ensembl_gene_id # "" THEN r.ensembl_gene_id ELSE r.ensembl_id) = g}
RegistrySymbol(g) ==
    IF \E r \in RegistryRows(g) : r.approved_symbol # <<>>
    THEN Some((CHOOSE r \in RegistryRows(g) : r.approved_symbol # <<>>).approved_symbol)
    ELSE NA

VersionSymbol(gencode_version, g) == Field(VersionRecord(gencode_version, g), "gene_symbol")
NamedVersions(g, n) ==
    {k \in 1..n : VersionSymbol(all_gencode_versions[k], g).d}
FirstNamed(g, n) == CHOOSE k \in NamedVersions(g, n) : \A j \in NamedVersions(g, n) : k <= j

\* symbol and symbol_source by the precedence rule over the first n versions
ResolvedSymbol(g, n) ==
    IF RegistrySymbol(g).d THEN RegistrySymbol(g)
    ELSE IF NamedVersions(g, n) # {}
         THEN VersionSymbol(all_gencode_versions[FirstNamed(g, n)], g)
         ELSE NA
ResolvedSource(g, n) ==
    IF RegistrySymbol(g).d THEN Some("hgnc")
    ELSE IF NamedVersions(g, n) # {}
         THEN Some("gencode (v" \o all_gencode_versions[FirstNamed(g, n)] \o ")")
         ELSE NA

\* C1: the symbol is the registry's when it has one, otherwise that of the first
\* configured version whose record has a symbol; symbol_source names the rule
\* that fired and a later version never overwrites it.
C1_SymbolPrecedence ==
    pc \in {"resolve_symbol", "search_terms", "search_done"} =>
        LET n == IF pc = "resolve_symbol" THEN idx - 1 ELSE Len(all_gencode_versions)
        IN \A row \in genes.v :
              /\ row.symbol = ResolvedSymbol(row.gene_id, n)
              /\ row.symbol_source = ResolvedSource(row.gene_id, n)

\* no registry entry, no symbol in v19, BAZ in v29
C1_Witness ==
    /\ pc = "search_done"
    /\ all_gencode_versions = <<"19", "29">>
    /\ hgnc.file = {}
    /\ \E row \in genes.v :
          /\ row.gencode["v19"] = Some([gene_version |-> "19", gene_symbol |-> NA])
          /\ row.symbol = Some(<<"B", "A", "Z">>)
          /\ row.symbol_source = Some("gencode (v29)")

\* the previous and alias symbols of the registry, split at the commas and trimmed
RegistryTerms(g) ==
    UNION {Range(StripAll(split(r.previous_symbols)))
             \cup Range(StripAll(split(r.alias_symbols))) : r \in RegistryRows(g)}
          \ {<<>>}

ExpectedSearchTerms(row) ==
    {upper(t) :
        t \in (IF row.symbol.d THEN {row.symbol.v} ELSE {})
              \cup RegistryTerms(row.gene_id)
              \cup {VersionSymbol(all_gencode_versions[k], row.gene_id).v :
                      k \in NamedVersions(row.gene_id, Len(all_gencode_versions))}}

\* C2: search_terms of every gene, with or without a registry entry and with
\* empty previous or alias fields, is a defined set: the upper case of the
\* symbol, the registry's previous and alias symbols and the versions' symbols.
\* Stated here for the genes that have a symbol.
C2_SearchTermsDefined ==
    pc = "search_done" =>
        \A row \in genes.v :
            row.symbol.d =>
                /\ row.search_terms.d
                /\ row.search_terms.v = {Some(t) : t \in ExpectedSearchTerms(row)}
                /\ Some(<<>>) \notin row.search_terms.v

---------------------------------------------------------------------------
(* Properties of main: the cross-reference *)

\* C10: once the lookup is built every row of the registry is retrievable,
\* also when rows share an accession and differ in version.
C10_EveryRowRetrievable ==
    pc \in {"annotate_transcripts", "mane_done", "raised"} =>
        \A k \in DOMAIN mane :
            /\ mane[k].ensembl_id \in DOMAIN ensembl_to_refseq_map
            /\ mane[k].ensembl_version \in DOMAIN ensembl_to_refseq_map[mane[k].ensembl_id]
            /\ ensembl_to_refseq_map[mane[k].ensembl_id][mane[k].ensembl_version]
                  = [refseq_id |-> Some(mane[k].refseq_id),
                     refseq_version |-> Some(mane[k].refseq_version)]

\* the registry's cross-reference of a transcript, null when it has no row
RegistryRefseq(t) ==
    IF \E k \in DOMAIN mane : /\ mane[k].ensembl_id = t.transcript_id
                              /\ mane[k].ensembl_version = t.transcript_version
    THEN LET k == CHOOSE k \in DOMAIN mane :
                      /\ mane[k].ensembl_id = t.transcript_id
                      /\ mane[k].ensembl_version = t.transcript_version
         IN [refseq_id |-> Some(mane[k].refseq_id),
             refseq_version |-> Some(mane[k].refseq_version)]
    ELSE NullRefseq

\* C7: with the registry supplied, the run ends without an error whatever
\* versions are configured; every transcript of v19 has null cross-reference
\* fields and every transcript of a supporting version has those of the
\* registry row of its (id, version), null when there is none.
C7_CrossReferenceAnnotated ==
    /\ ~failed
    /\ pc = "mane_done" =>
          \A row \in genes.v :
              \A k \in DOMAIN all_gencode_versions :
                  LET sub == row.gencode[Label(all_gencode_versions[k])]
                  IN (sub.d /\ sub.v.transcripts.d) =>
                        \A j \in DOMAIN sub.v.transcripts.v :
                            LET t == sub.v.transcripts.v[j]
                                expected == IF all_gencode_versions[k] = "19"
                                            THEN NullRefseq
                                            ELSE RegistryRefseq(t)
                            IN /\ "refseq_id" \in DOMAIN t
                               /\ t.refseq_id = expected.refseq_id
                               /\ t.refseq_version = expected.refseq_version

====
